---- MODULE Spec2Model ----
(***************************************************************************)
(* Model of the webhook utilities of the Wasender TypeScript SDK           *)
(* (src/src/webhook.ts): the event-name registry and dispatchWebhookEvent. *)
(*                                                                         *)
(* JavaScript values are modelled with reference semantics: primitives are *)
(* tagged records, objects and arrays live in a heap and are denoted by    *)
(* references, so that "returns raw" and "copies raw.data" are different   *)
(* things, and a thrown TypeError is an outcome distinct from a return.    *)
(***************************************************************************)
EXTENDS Integers, Sequences, FiniteSets, TLC

VARIABLES heap, deliveries, calls, registry, writes, checks, header, client, requests

\* The state of the dispatcher and of its callers; the state of the rest of
\* the module and of the SDK client.
dispatchVars == <<heap, deliveries, calls, registry, writes>>
otherVars == <<checks, header, client, requests>>

vars == <<dispatchVars, otherVars>>

(***************************************************************************)
(* Bounds of the model.                                                    *)
(***************************************************************************)
MaxDeliveries == 1
MaxCalls == 2
MaxHistoryDeliveries == 2
MaxHistoryCalls == 3
MaxAliasDeliveries == 1
MaxAliasCalls == 2
MaxWrites == 1
MaxChecks == 2
MaxRequests == 3
MaxModuleOps == 3
MaxShapeDeliveries == 1
MaxShapeCalls == 1
MaxStreamDeliveries == 2
MaxRedispatchDeliveries == 1
MaxRedispatchCalls == 2

(***************************************************************************)
(* JavaScript values.                                                      *)
(***************************************************************************)
Undefined == [t |-> "undefined"]
Null == [t |-> "null"]
Num(n) == [t |-> "number", n |-> n]
Str(s) == [t |-> "string", s |-> s]
Bool(b) == [t |-> "boolean", b |-> b]
Ref(a) == [t |-> "ref", a |-> a]

\* An object or array of the heap: its own properties.
Obj(fields) == [kind |-> "object", f |-> fields]
Arr(fields) == [kind |-> "array", f |-> fields]
NoFields == <<>>

\* ToBoolean: the falsy values are undefined, null, 0, "" and false.
ToBoolean(v) ==
  CASE v.t = "undefined" -> FALSE
    [] v.t = "null" -> FALSE
    [] v.t = "number" -> v.n # 0
    [] v.t = "string" -> v.s # ""
    [] v.t = "boolean" -> v.b
    [] v.t = "ref" -> TRUE

\* The typeof operator: null, objects and arrays are all "object".
TypeOf(v) ==
  CASE v.t = "undefined" -> "undefined"
    [] v.t = "null" -> "object"
    [] v.t = "number" -> "number"
    [] v.t = "string" -> "string"
    [] v.t = "boolean" -> "boolean"
    [] v.t = "ref" -> "object"

\* A property read v.k throws a TypeError exactly when v is null or undefined.
ReadThrows(v) == v.t \in {"undefined", "null"}

\* The value of the property read v.k when it does not throw: the own
\* property of an object or array, undefined when there is none (and for a
\* primitive, whose wrapper has none of the properties read here).
Get(h, v, k) ==
  IF v.t = "ref" /\ k \in DOMAIN h[v.a].f THEN h[v.a].f[k] ELSE Undefined

\* Completions of a call.
Return(v) == [tag |-> "return", val |-> v]
Throw == [tag |-> "throw", val |-> Undefined]

\* The structure reachable from a value: what a deep comparison sees.
RECURSIVE Deep(_, _)
Deep(h, v) ==
  IF v.t = "ref"
    THEN [t |-> h[v.a].kind,
          f |-> [k \in DOMAIN h[v.a].f |-> Deep(h, h[v.a].f[k])]]
    ELSE v

(***************************************************************************)
(* The name of the signature header, character by character.              *)
(***************************************************************************)
\* The header name as the documentation of verifyWasenderWebhookSignature
\* spells it, X-Webhook-Signature.
WEBHOOK_SIGNATURE_HEADER_Capitalized ==
  <<"X", "-", "W", "e", "b", "h", "o", "o", "k", "-",
    "S", "i", "g", "n", "a", "t", "u", "r", "e">>

WEBHOOK_SIGNATURE_HEADER ==
  <<"x", "-", "w", "e", "b", "h", "o", "o", "k", "-",
    "s", "i", "g", "n", "a", "t", "u", "r", "e">>

(***************************************************************************)
(* verifyWasenderWebhookSignature.                                         *)
(***************************************************************************)
\* The comparison alone: return requestSignature === configuredSecret.
verifyWasenderWebhookSignature_NoGuard(requestSignature, configuredSecret) ==
  Return(Bool(requestSignature = configuredSecret))

\* The lower-case form of a signature string of the model.
LowerCase(s) == IF s = "ABC" THEN "abc" ELSE s

\* The guard, then a comparison that ignores letter case.
verifyWasenderWebhookSignature_IgnoreCase(requestSignature, configuredSecret) ==
  IF ~ToBoolean(requestSignature) \/ ~ToBoolean(configuredSecret)
    THEN Return(Bool(FALSE))
    ELSE Return(Bool(LowerCase(requestSignature.s) = LowerCase(configuredSecret.s)))

\* return requestSignature && configuredSecret &&
\*        requestSignature === configuredSecret: a falsy operand is returned
\* itself.
verifyWasenderWebhookSignature_ShortCircuit(requestSignature, configuredSecret) ==
  IF ~ToBoolean(requestSignature) THEN Return(requestSignature)
  ELSE IF ~ToBoolean(configuredSecret) THEN Return(configuredSecret)
  ELSE Return(Bool(requestSignature = configuredSecret))

\* A signature string of the model without its surrounding whitespace.
Trimmed(s) == IF s = " abc" THEN "abc" ELSE s

\* The guard, then the trimmed header value compared with the secret:
\* return requestSignature.trim() === configuredSecret.
verifyWasenderWebhookSignature_TrimsSignature(requestSignature, configuredSecret) ==
  IF ~ToBoolean(requestSignature) \/ ~ToBoolean(configuredSecret)
    THEN Return(Bool(FALSE))
    ELSE Return(Bool(Trimmed(requestSignature.s) = configuredSecret.s))

\* if (!requestSignature || !configuredSecret) return false;
\* return requestSignature === configuredSecret;
verifyWasenderWebhookSignature(requestSignature, configuredSecret) ==
  IF ~ToBoolean(requestSignature) \/ ~ToBoolean(configuredSecret)
    THEN Return(Bool(FALSE))
    ELSE Return(Bool(requestSignature = configuredSecret))

(***************************************************************************)
(* The SDK client: the two tokens it was created with.                     *)
(***************************************************************************)
createWasender(apiKey, personalAccessToken) ==
  [apiKey |-> apiKey, personalAccessToken |-> personalAccessToken]

\* The operations of the client that the tests exercise: method, path and
\* scope (account-scoped session management, or session-scoped).
Operations ==
  [getAllWhatsAppSessions |-> [method |-> "GET", path |-> "/whatsapp-sessions", scope |-> "account"],
   createWhatsAppSession |-> [method |-> "POST", path |-> "/whatsapp-sessions", scope |-> "account"],
   getSessionStatus |-> [method |-> "GET", path |-> "/status", scope |-> "session"],
   getContacts |-> [method |-> "GET", path |-> "/contacts", scope |-> "session"]]

WasenderAPIError(message) == [name |-> "WasenderAPIError", message |-> message]

PersonalAccessTokenRequired ==
  "Personal Access Token is required for this operation but was not provided during SDK initialization."

SessionApiKeyRequired ==
  "Session API Key is required for this operation but was not provided or is not applicable."

Rejected(error) == [tag |-> "rejected", error |-> error]

\* A fetch call: Authorization is `Bearer ${token}`.
Fetched(op, token) ==
  [tag |-> "fetched",
   method |-> Operations[op].method,
   path |-> Operations[op].path,
   headers |-> <<[name |-> "Authorization", value |-> <<"Bearer", token.s>>]>>]

\* A request that takes the personal access token whenever there is one.
request_PreferPersonalToken(c, op) ==
  IF c.personalAccessToken # Undefined THEN Fetched(op, c.personalAccessToken)
  ELSE IF Operations[op].scope = "account"
    THEN Rejected(WasenderAPIError(PersonalAccessTokenRequired))
  ELSE IF c.apiKey = Undefined
    THEN Rejected(WasenderAPIError(SessionApiKeyRequired))
  ELSE Fetched(op, c.apiKey)

\* A request that takes the other token when the one of its scope is
\* missing.
request_Substitute(c, op) ==
  LET own == IF Operations[op].scope = "account" THEN c.personalAccessToken ELSE c.apiKey
      other == IF Operations[op].scope = "account" THEN c.apiKey ELSE c.personalAccessToken
  IN  IF own # Undefined THEN Fetched(op, own)
      ELSE IF other # Undefined THEN Fetched(op, other)
      ELSE IF Operations[op].scope = "account"
        THEN Rejected(WasenderAPIError(PersonalAccessTokenRequired))
        ELSE Rejected(WasenderAPIError(SessionApiKeyRequired))

\* The request method: the token is chosen by the scope of the path, and a
\* missing token rejects before any fetch call.
request(c, op) ==
  IF Operations[op].scope = "account"
    THEN IF c.personalAccessToken = Undefined
           THEN Rejected(WasenderAPIError(PersonalAccessTokenRequired))
           ELSE Fetched(op, c.personalAccessToken)
    ELSE IF c.apiKey = Undefined
           THEN Rejected(WasenderAPIError(SessionApiKeyRequired))
           ELSE Fetched(op, c.apiKey)

(***************************************************************************)
(* The registry of known event names.                                      *)
(***************************************************************************)
WasenderWebhookEventType ==
  [ChatsUpsert |-> "chats.upsert",
   ChatsUpdate |-> "chats.update",
   ChatsDelete |-> "chats.delete",
   GroupsUpsert |-> "groups.upsert",
   GroupsUpdate |-> "groups.update",
   GroupParticipantsUpdate |-> "group-participants.update",
   ContactsUpsert |-> "contacts.upsert",
   ContactsUpdate |-> "contacts.update",
   MessagesUpsert |-> "messages.upsert",
   MessagesUpdate |-> "messages.update",
   MessagesDelete |-> "messages.delete",
   MessagesReaction |-> "messages.reaction",
   CallReceived |-> "call.received",
   MessagesPersonalReceived |-> "messages-personal.received",
   MessagesNewsletterReceived |-> "messages-newsletter.received",
   MessagesGroupReceived |-> "messages-group.received",
   MessagesReceived |-> "messages.received",
   PollResults |-> "poll.results",
   MessageReceiptUpdate |-> "message-receipt.update",
   MessageSent |-> "message.sent",
   SessionStatus |-> "session.status",
   QrCodeUpdated |-> "qrcode.updated"]

\* The switch without the case for poll.results.
CaseLabels_WithoutPollResults ==
  <<"MessagesUpsert", "MessagesUpdate", "MessagesDelete", "MessagesReaction",
    "MessageReceiptUpdate", "MessageSent", "SessionStatus", "QrCodeUpdated",
    "CallReceived", "MessagesPersonalReceived", "MessagesNewsletterReceived",
    "MessagesGroupReceived", "MessagesReceived",
    "ChatsUpsert", "ChatsUpdate", "ChatsDelete", "GroupsUpsert",
    "GroupsUpdate", "GroupParticipantsUpdate", "ContactsUpsert",
    "ContactsUpdate">>

\* The case labels of the switch, in source order.
CaseLabels ==
  <<"MessagesUpsert", "MessagesUpdate", "MessagesDelete", "MessagesReaction",
    "MessageReceiptUpdate", "MessageSent", "SessionStatus", "QrCodeUpdated",
    "CallReceived", "MessagesPersonalReceived", "MessagesNewsletterReceived",
    "MessagesGroupReceived", "MessagesReceived", "PollResults",
    "ChatsUpsert", "ChatsUpdate", "ChatsDelete", "GroupsUpsert",
    "GroupsUpdate", "GroupParticipantsUpdate", "ContactsUpsert",
    "ContactsUpdate">>

(***************************************************************************)
(* dispatchWebhookEvent.  Every part yields the effect of the call: its    *)
(* completion, the heap it leaves and the registry it leaves.              *)
(***************************************************************************)
Effect(out, h, reg) == [out |-> out, heap |-> h, registry |-> reg]

\* An object literal allocates a fresh object.
NewObject(h, fields) == [heap |-> Append(h, Obj(fields)), ref |-> Ref(Len(h) + 1)]

\* The guard without its first test, !raw.
MalformedGuard_NoFalsyTest(raw, h) ==
  IF TypeOf(raw) # "object" THEN "malformed"
  ELSE IF ReadThrows(raw) THEN "throw"
  ELSE IF ~ToBoolean(Get(h, raw, "event")) THEN "malformed"
  ELSE "wellformed"

\* The guard with the placeholder name counted as no name:
\* ... || !raw.event || raw.event === "unknown".
MalformedGuard_UnknownIsMalformed(raw, h) ==
  IF ~ToBoolean(raw) THEN "malformed"
  ELSE IF TypeOf(raw) # "object" THEN "malformed"
  ELSE IF ReadThrows(raw) THEN "throw"
  ELSE IF ~ToBoolean(Get(h, raw, "event")) THEN "malformed"
  ELSE IF Get(h, raw, "event") = Str("unknown") THEN "malformed"
  ELSE "wellformed"

\* if (!raw || typeof raw !== "object" || !raw.event), evaluated left to
\* right with short circuit; the read raw.event can throw.
MalformedGuard(raw, h) ==
  IF ~ToBoolean(raw) THEN "malformed"
  ELSE IF TypeOf(raw) # "object" THEN "malformed"
  ELSE IF ReadThrows(raw) THEN "throw"
  ELSE IF ~ToBoolean(Get(h, raw, "event")) THEN "malformed"
  ELSE "wellformed"

\* The malformed-input fallback without its payload: { event: "unknown", raw }.
MalformedFallback_NoData(raw, h, reg) ==
  LET o == NewObject(h, [event |-> Str("unknown"), raw |-> raw])
  IN  Effect(Return(o.ref), o.heap, reg)

\* The malformed-input fallback written into the input: an object or array
\* raw gets event = "unknown" and is returned.
MalformedFallback_InPlace(raw, h, reg) ==
  IF raw.t = "ref"
    THEN Effect(Return(raw),
                [h EXCEPT ![raw.a].f = ("event" :> Str("unknown")) @@ @],
                reg)
    ELSE LET o == NewObject(h, [event |-> Str("unknown"), data |-> raw, raw |-> raw])
         IN  Effect(Return(o.ref), o.heap, reg)

\* The malformed-input fallback built like the default branch: the input's
\* timestamp, data and sessionId copied to the top level.
MalformedFallback_LikeDefault(raw, h, reg) ==
  LET o == NewObject(h, [event |-> Str("unknown"),
                         timestamp |-> Get(h, raw, "timestamp"),
                         data |-> Get(h, raw, "data"),
                         sessionId |-> Get(h, raw, "sessionId"),
                         raw |-> raw])
  IN  Effect(Return(o.ref), o.heap, reg)

\* return { event: "unknown", data: raw, raw }
MalformedFallback(raw, h, reg) ==
  LET o == NewObject(h, [event |-> Str("unknown"), data |-> raw, raw |-> raw])
  IN  Effect(Return(o.ref), o.heap, reg)

\* The lower-case, trimmed form of an event name of the model.
Normalized(s) ==
  IF s \in {"Messages.Upsert", "MESSAGES.UPSERT", " messages.upsert", "messages.upsert "}
    THEN "messages.upsert"
    ELSE s

\* The switch on the normalized event name.
SwitchMatches_Normalized(ev, reg) ==
  \E i \in 1..Len(CaseLabels) :
    /\ CaseLabels[i] \in DOMAIN reg
    /\ ev.t = "string"
    /\ Normalized(ev.s) = reg[CaseLabels[i]]

\* switch (ev): a case is taken when ev === the label's value (strict
\* equality: same type and same string).
SwitchMatches(ev, reg) ==
  \E i \in 1..Len(CaseLabels) :
    /\ CaseLabels[i] \in DOMAIN reg
    /\ ev = Str(reg[CaseLabels[i]])

\* A typed event rebuilt from the event name and the payload alone.
TypedEvent_Rebuilt(raw, h, reg) ==
  LET o == NewObject(h, [event |-> Get(h, raw, "event"), data |-> Get(h, raw, "data")])
  IN  Effect(Return(o.ref), o.heap, reg)

\* A typed event built from the four declared fields of BaseWebhookEvent.
TypedEvent_DeclaredFields(raw, h, reg) ==
  LET o == NewObject(h, [event |-> Get(h, raw, "event"),
                         timestamp |-> Get(h, raw, "timestamp"),
                         data |-> Get(h, raw, "data"),
                         sessionId |-> Get(h, raw, "sessionId")])
  IN  Effect(Return(o.ref), o.heap, reg)

\* A typed event only for a payload that is a single record; the
\* malformed-input fallback for any other payload.
TypedEvent_RecordsOnly(raw, h, reg) ==
  LET data == Get(h, raw, "data") IN
  IF data.t = "ref" /\ h[data.a].kind = "object"
    THEN Effect(Return(raw), h, reg)
    ELSE MalformedFallback(raw, h, reg)

\* The decimal index of the i-th entry of an array.
ArrayIndex == <<"0", "1", "2">>

\* A typed branch that fans a list payload out: for data that is an array,
\* an array of one event per entry ({ event, data: entry }); the input
\* itself otherwise.
TypedEvent_FanOut(raw, h, reg) ==
  LET data == Get(h, raw, "data") IN
  IF data.t = "ref" /\ h[data.a].kind = "array"
    THEN LET n == Cardinality(DOMAIN h[data.a].f)
             events == [i \in 1..n |->
                          Obj([event |-> Get(h, raw, "event"),
                               data |-> h[data.a].f[ArrayIndex[i]]])]
             list == Arr([k \in {ArrayIndex[i] : i \in 1..n} |->
                            Ref(Len(h) + (CHOOSE i \in 1..n : ArrayIndex[i] = k))])
         IN  Effect(Return(Ref(Len(h) + n + 1)), h \o events \o <<list>>, reg)
    ELSE Effect(Return(raw), h, reg)

\* return raw as <the event type>: the input itself.
TypedEvent(raw, h, reg) == Effect(Return(raw), h, reg)

\* The fallback under the placeholder name.
FallbackEvent_Placeholder(raw, ev, h, reg) ==
  LET o == NewObject(h, [event |-> Str("unknown"),
                         timestamp |-> Get(h, raw, "timestamp"),
                         data |-> Get(h, raw, "data"),
                         sessionId |-> Get(h, raw, "sessionId"),
                         raw |-> raw])
  IN  Effect(Return(o.ref), o.heap, reg)

\* The fallback with the name and the payload only.
FallbackEvent_NameAndData(raw, ev, h, reg) ==
  LET o == NewObject(h, [event |-> ev, data |-> Get(h, raw, "data")])
  IN  Effect(Return(o.ref), o.heap, reg)

\* The default branch returning its input, like the cases above it.
FallbackEvent_ReturnsInput(raw, ev, h, reg) == Effect(Return(raw), h, reg)

\* The default branch under the normalized name: event: normalize(ev).
FallbackEvent_Normalized(raw, ev, h, reg) ==
  LET o == NewObject(h, [event |-> IF ev.t = "string" THEN Str(Normalized(ev.s)) ELSE ev,
                         timestamp |-> Get(h, raw, "timestamp"),
                         data |-> Get(h, raw, "data"),
                         sessionId |-> Get(h, raw, "sessionId"),
                         raw |-> raw])
  IN  Effect(Return(o.ref), o.heap, reg)

\* The default branch spreading the input: { ...raw, event: ev, raw }.
FallbackEvent_Spread(raw, ev, h, reg) ==
  LET own == IF raw.t = "ref" THEN h[raw.a].f ELSE NoFields
      o == NewObject(h, [event |-> ev, raw |-> raw] @@ own)
  IN  Effect(Return(o.ref), o.heap, reg)

\* default: return { event: ev, timestamp: raw.timestamp, data: raw.data,
\*                   sessionId: raw.sessionId, raw }
FallbackEvent(raw, ev, h, reg) ==
  IF ReadThrows(raw) THEN Effect(Throw, h, reg)
  ELSE
    LET o == NewObject(h, [event |-> ev,
                           timestamp |-> Get(h, raw, "timestamp"),
                           data |-> Get(h, raw, "data"),
                           sessionId |-> Get(h, raw, "sessionId"),
                           raw |-> raw])
    IN  Effect(Return(o.ref), o.heap, reg)

\* A dispatcher that unwraps an event it built itself: an input with a raw
\* property is taken for a fallback event and its raw is dispatched instead.
dispatchWebhookEvent_Unwrap(raw, h, reg) ==
  LET x == IF raw.t = "ref" /\ "raw" \in DOMAIN h[raw.a].f THEN h[raw.a].f.raw ELSE raw
      g == MalformedGuard(x, h)
  IN  CASE g = "throw" -> Effect(Throw, h, reg)
        [] g = "malformed" -> MalformedFallback(x, h, reg)
        [] g = "wellformed" ->
             LET ev == Get(h, x, "event") IN
             IF SwitchMatches(ev, reg)
               THEN TypedEvent(x, h, reg)
               ELSE FallbackEvent(x, ev, h, reg)

\* A dispatcher that handles each known event name once: the matched
\* registry entries are deleted by the call.
dispatchWebhookEvent_Once(raw, h, reg) ==
  LET g == MalformedGuard(raw, h) IN
  CASE g = "throw" -> Effect(Throw, h, reg)
    [] g = "malformed" -> MalformedFallback(raw, h, reg)
    [] g = "wellformed" ->
         LET ev == Get(h, raw, "event") IN
         IF SwitchMatches(ev, reg)
           THEN TypedEvent(raw, h, [k \in {l \in DOMAIN reg : Str(reg[l]) # ev} |-> reg[k]])
           ELSE FallbackEvent(raw, ev, h, reg)

dispatchWebhookEvent(raw, h, reg) ==
  LET g == MalformedGuard(raw, h) IN
  CASE g = "throw" -> Effect(Throw, h, reg)
    [] g = "malformed" -> MalformedFallback(raw, h, reg)
    [] g = "wellformed" ->
         LET ev == Get(h, raw, "event") IN
         IF SwitchMatches(ev, reg)
           THEN TypedEvent(raw, h, reg)
           ELSE FallbackEvent(raw, ev, h, reg)

(***************************************************************************)
(* Deliveries: the values a transport hands to the dispatcher.  A payload  *)
(* is a root value and the objects it is made of, with references         *)
(* relative to the payload; decoding it allocates them afresh.             *)
(***************************************************************************)
KnownNames == {WasenderWebhookEventType[k] : k \in DOMAIN WasenderWebhookEventType}

UnrecognizedNames ==
  {"unknown", "unknown.custom.event", "Messages.Upsert", "MESSAGES.UPSERT",
   " messages.upsert", "messages.upsert ", "messages.up", "messages.upsertx"}

\* What the event field of a delivered object can be: absent, a primitive,
\* an object ("{}") or an array ("[]").
Absent == [t |-> "absent"]
EmptyObject == [t |-> "{}"]
EmptyArray == [t |-> "[]"]

EventInputs ==
  {Absent, EmptyObject, EmptyArray}
    \cup {Null, Str(""), Num(0), Num(5), Bool(FALSE), Bool(TRUE)}
    \cup {Str(n) : n \in KnownNames \cup UnrecognizedNames}

Profiles == {"full", "bare", "list", "nulldata"}

\* The fields other than event, and the objects they refer to (from cell 2).
ProfileFields(p) ==
  CASE p = "full" -> [timestamp |-> Num(1697640000), data |-> Ref(2),
                      sessionId |-> Str("session4"), extra |-> Str("x")]
    [] p = "bare" -> NoFields
    [] p = "list" -> [timestamp |-> Num(0), data |-> Ref(2)]
    [] p = "nulldata" -> [data |-> Null, sessionId |-> Str("")]

ProfileCells(p) ==
  CASE p = "full" ->
         <<Obj([key |-> Ref(3), message |-> Ref(4)]),
           Obj([id |-> Str("msg3"), fromMe |-> Bool(FALSE),
                remoteJid |-> Str("99999-161@g.us"),
                participant |-> Str("12345@s.whatsapp.net")]),
           Obj([conversation |-> Str("group hello")])>>
    [] p = "bare" -> <<>>
    [] p = "list" ->
         <<Arr(("0" :> Ref(3)) @@ ("1" :> Ref(4))),
           Obj([id |-> Str("chat1")]),
           Obj([id |-> Str("chat2")])>>
    [] p = "nulldata" -> <<>>

ObjectPayload(e, p) ==
  LET rest == ProfileCells(p)
      next == Len(rest) + 2
      evf == CASE e.t = "absent" -> NoFields
               [] e.t \in {"{}", "[]"} -> [event |-> Ref(next)]
               [] OTHER -> [event |-> e]
      evc == CASE e.t = "{}" -> <<Obj(NoFields)>>
               [] e.t = "[]" -> <<Arr(NoFields)>>
               [] OTHER -> <<>>
  IN  [root |-> Ref(1),
       cells |-> <<Obj(evf @@ ProfileFields(p))>> \o rest \o evc]

PrimitivePayloads ==
  {[root |-> v, cells |-> <<>>] :
     v \in {Null, Undefined, Num(0), Num(5), Str(""), Str("hello"),
            Bool(FALSE), Bool(TRUE)}}

ArrayPayloads ==
  {[root |-> Ref(1), cells |-> <<Arr(NoFields)>>],
   [root |-> Ref(1), cells |-> <<Arr(("0" :> Str("messages.upsert")) @@ ("1" :> Ref(2))),
                                 Obj([event |-> Str("messages.upsert")])>>]}

Payloads ==
  {ObjectPayload(e, p) : e \in EventInputs, p \in Profiles}
    \cup PrimitivePayloads \cup ArrayPayloads

\* Decoding at heap size base: references become absolute.
Shift(v, base) == IF v.t = "ref" THEN Ref(v.a + base) ELSE v

Relocate(cells, base) ==
  [i \in 1..Len(cells) |->
     [kind |-> cells[i].kind,
      f |-> [k \in DOMAIN cells[i].f |-> Shift(cells[i].f[k], base)]]]

(***************************************************************************)
(* The state machine.                                                      *)
(***************************************************************************)
InitDispatcher ==
  /\ heap = <<>>
  /\ deliveries = <<>>
  /\ calls = <<>>
  /\ registry = WasenderWebhookEventType
  /\ writes = <<>>

InitOthers ==
  /\ checks = <<>>
  /\ header = WEBHOOK_SIGNATURE_HEADER
  /\ client = createWasender(Undefined, Undefined)
  /\ requests = <<>>

Init == InitDispatcher /\ InitOthers

\* A delivery is decoded into a fresh value.
Decode(p) ==
  /\ heap' = heap \o Relocate(p.cells, Len(heap))
  /\ deliveries' = Append(deliveries, Shift(p.root, Len(heap)))
  /\ UNCHANGED <<calls, registry, writes>>
  /\ UNCHANGED otherVars

\* What is recorded of a call dispatchWebhookEvent(raw): the value passed,
\* the completion, the structure of raw before and after the call, the
\* structure of the returned value, the number of objects the call
\* allocated, and the own properties of raw and of the returned object.
CallRecord(raw, h, eff) ==
  [raw |-> raw,
   out |-> eff.out,
   pre |-> Deep(h, raw),
   post |-> Deep(eff.heap, raw),
   result |-> Deep(eff.heap, eff.out.val),
   fresh |-> Len(eff.heap) - Len(h),
   input |-> IF raw.t = "ref" THEN h[raw.a].f ELSE NoFields,
   output |-> IF eff.out.val.t = "ref" THEN eff.heap[eff.out.val.a].f ELSE NoFields]

\* The application calls dispatchWebhookEvent on a delivery it holds.
Call(i) ==
  /\ LET raw == deliveries[i]
         eff == dispatchWebhookEvent(raw, heap, registry)
     IN  /\ heap' = eff.heap
         /\ registry' = eff.registry
         /\ calls' = Append(calls, CallRecord(raw, heap, eff))
  /\ UNCHANGED <<deliveries, writes>>
  /\ UNCHANGED otherVars

Receive(p) == Len(deliveries) < MaxDeliveries /\ Decode(p)

Dispatch(i) == Len(calls) < MaxCalls /\ Call(i)

Next ==
  \/ \E p \in Payloads : Receive(p)
  \/ \E i \in 1..Len(deliveries) : Dispatch(i)

Spec == Init /\ [][Next]_vars

(***************************************************************************)
(* Several deliveries and longer call histories, over one payload of each  *)
(* shape the dispatcher tells apart.                                       *)
(***************************************************************************)
HistoryPayloads ==
  {ObjectPayload(e, p) :
     e \in {Absent, Num(5), Str("messages.upsert"),
            Str("unknown.custom.event"), Str("Messages.Upsert")},
     p \in {"full", "bare"}}
    \cup {[root |-> Null, cells |-> <<>>], [root |-> Str("hello"), cells |-> <<>>]}

ReceiveNext(p) == Len(deliveries) < MaxHistoryDeliveries /\ Decode(p)

DispatchAgain(i) == Len(calls) < MaxHistoryCalls /\ Call(i)

NextHistory ==
  \/ \E p \in HistoryPayloads : ReceiveNext(p)
  \/ \E i \in 1..Len(deliveries) : DispatchAgain(i)

SpecHistory == Init /\ [][NextHistory]_vars

(***************************************************************************)
(* Callers that write to the event they got back.  An assignment           *)
(* result.k = v writes the property of the object the result refers to.    *)
(***************************************************************************)
AliasPayloads == HistoryPayloads

WrittenFields == {"event", "data", "sessionId"}

Changed == Str("changed")

\* The caller of call i assigns to a property of the event it was returned.
Modify(i, k) ==
  /\ Len(writes) < MaxWrites
  /\ calls[i].out.tag = "return"
  /\ calls[i].out.val.t = "ref"
  /\ heap' = [heap EXCEPT ![calls[i].out.val.a].f = (k :> Changed) @@ @]
  /\ writes' = Append(writes, [call |-> i, field |-> k])
  /\ UNCHANGED <<deliveries, calls, registry>>
  /\ UNCHANGED otherVars

ReceiveShared(p) == Len(deliveries) < MaxAliasDeliveries /\ Decode(p)

DispatchShared(i) == Len(calls) < MaxAliasCalls /\ Call(i)

NextAlias ==
  \/ \E p \in AliasPayloads : ReceiveShared(p)
  \/ \E i \in 1..Len(deliveries) : DispatchShared(i)
  \/ \E i \in 1..Len(calls), k \in WrittenFields : Modify(i, k)

SpecAlias == Init /\ [][NextAlias]_vars

(***************************************************************************)
(* Properties of dispatchWebhookEvent, stated over the recorded calls.     *)
(* The shape of an input is read off the input, not off the dispatcher.    *)
(***************************************************************************)
Calls == {calls[i] : i \in 1..Len(calls)}

KnownEventValues == {Str(n) : n \in KnownNames}

\* raw is an object or array with an own property event.
HasEvent(c) == c.raw.t = "ref" /\ "event" \in DOMAIN c.input

\* raw.event is one of the 22 known names.
HasKnownEvent(c) == HasEvent(c) /\ c.input.event \in KnownEventValues

\* raw.event is a non-empty string that is none of the 22 known names.
HasUnrecognizedEvent(c) ==
  /\ HasEvent(c)
  /\ c.input.event.t = "string"
  /\ c.input.event.s # ""
  /\ c.input.event \notin KnownEventValues

\* raw is not an object, or has no event, or has the empty string as event.
HasNoEventName(c) ==
  \/ c.raw.t # "ref"
  \/ "event" \notin DOMAIN c.input
  \/ c.input.event = Str("")

\* The value raw.k had before the call, undefined when raw had no such
\* property.
InputField(c, k) == IF k \in DOMAIN c.input THEN c.input[k] ELSE Undefined

\* The value of a property of a structure, undefined when it has none.
Field(d, k) == IF k \in DOMAIN d.f THEN d.f[k] ELSE Undefined

\* C1: every call of dispatchWebhookEvent returns an event object and none
\* throws, whatever the input is (null, undefined, a primitive, an array, an
\* object without event, with a non-string event, with a known or with an
\* unrecognized event name).
C1_Total ==
  \A c \in Calls : c.out.tag = "return" /\ c.out.val.t = "ref"

C1_Witness ==
  \E c \in Calls : c.raw = Null /\ c.out.tag = "return"

\* C2: for an input carrying one of the 22 known event names, the returned
\* event has the input's event name, and its data, timestamp and sessionId
\* are present exactly when the input's are and structurally identical to
\* them, nested fields included.
C2_KnownRoundTrip ==
  \A c \in Calls :
    HasKnownEvent(c) =>
      /\ c.out.tag = "return"
      /\ c.result.t = "object"
      /\ "event" \in DOMAIN c.result.f
      /\ c.result.f.event = c.input.event
      /\ \A k \in {"data", "timestamp", "sessionId"} :
           /\ k \in DOMAIN c.result.f <=> k \in DOMAIN c.pre.f
           /\ k \in DOMAIN c.pre.f => c.result.f[k] = c.pre.f[k]

C2_Witness ==
  \E c \in Calls :
    /\ c.input = [event |-> Str("messages-group.received"),
                  timestamp |-> Num(1697640000), data |-> Ref(2),
                  sessionId |-> Str("session4"), extra |-> Str("x")]
    /\ c.result.f.data.f.key.f.participant = Str("12345@s.whatsapp.net")
    /\ c.result.f.data.f.message.f.conversation = Str("group hello")
    /\ c.result.f.timestamp = Num(1697640000)

\* C3: for an input whose event is a non-empty string that is not a known
\* name, the result is a fallback event (a new object with a raw property)
\* whose event is that string, "unknown" only when the input says "unknown",
\* and whose data is the input's data.
C3_FallbackKeepsName ==
  \A c \in Calls :
    HasUnrecognizedEvent(c) =>
      /\ c.out.tag = "return"
      /\ c.fresh = 1
      /\ "raw" \in DOMAIN c.output
      /\ "event" \in DOMAIN c.output
      /\ c.output.event = c.input.event
      /\ "data" \in DOMAIN c.output
      /\ c.output.data = InputField(c, "data")
      /\ c.result.f.data = Field(c.pre, "data")

C3_Witness ==
  \E c \in Calls :
    /\ HasUnrecognizedEvent(c)
    /\ c.input.event = Str("unknown.custom.event")
    /\ c.output.event = Str("unknown.custom.event")
    /\ c.result.f.data.t = "object"

\* C4: for an input with an unrecognized event name, the fallback event
\* carries the input's timestamp and sessionId (undefined when the input
\* has none) and its raw property is the input itself.
C4_FallbackCarries ==
  \A c \in Calls :
    HasUnrecognizedEvent(c) =>
      /\ c.out.tag = "return"
      /\ {"timestamp", "sessionId", "raw"} \subseteq DOMAIN c.output
      /\ c.output.timestamp = Field(c.pre, "timestamp")
      /\ c.output.sessionId = Field(c.pre, "sessionId")
      /\ c.output.raw = c.raw
      /\ c.result.f.raw = c.pre

C4_Witness ==
  \E c \in Calls :
    /\ HasUnrecognizedEvent(c)
    /\ c.output.timestamp = Num(1697640000)
    /\ c.output.sessionId = Str("session4")
    /\ c.output.raw = c.raw
    /\ c.result.f.raw.f.extra = Str("x")

\* C5: when the input is null, undefined, another non-object value, or an
\* object or array with no event or with the empty string as event, the
\* result is the fallback event with event "unknown" whose data and raw are
\* both the whole input.
C5_MalformedFallback ==
  \A c \in Calls :
    HasNoEventName(c) =>
      /\ c.out.tag = "return"
      /\ c.fresh = 1
      /\ c.output = [event |-> Str("unknown"), data |-> c.raw, raw |-> c.raw]
      /\ c.result.f.data = c.pre
      /\ c.result.f.raw = c.pre

C5_Witness ==
  \E c \in Calls :
    /\ c.raw.t = "ref"
    /\ c.pre.t = "array"
    /\ c.output = [event |-> Str("unknown"), data |-> c.raw, raw |-> c.raw]

\* C6: an input object whose event is present but is a number, a boolean,
\* an object or an array is treated as malformed: the result is the
\* fallback event with event "unknown" whose data is the whole input.
C6_NonStringEventMalformed ==
  \A c \in Calls :
    (HasEvent(c) /\ c.input.event.t \in {"number", "boolean", "ref"}) =>
      /\ c.out.tag = "return"
      /\ "event" \in DOMAIN c.output
      /\ c.output.event = Str("unknown")
      /\ "data" \in DOMAIN c.output
      /\ c.output.data = c.raw

\* C7: the event of every returned value is a string.
C7_EventIsString ==
  \A c \in Calls :
    /\ c.out.tag = "return"
    /\ "event" \in DOMAIN c.output
    /\ c.output.event.t = "string"

\* The call returned its input itself and built nothing: a typed event.
IsTypedResult(c) == c.out = Return(c.raw) /\ c.fresh = 0

\* The call returned a fallback event: a new object with a raw property.
IsFallbackResult(c) ==
  /\ c.out.tag = "return"
  /\ c.fresh = 1
  /\ c.out.val # c.raw
  /\ "raw" \in DOMAIN c.output

\* C8: the result is a typed event exactly when the input's event is,
\* character for character, one of the 22 known names; a string differing
\* from a known name in letter case, in surrounding whitespace, or by being
\* a prefix or an extension of it gets the fallback event carrying that
\* string.
C8_ExactMatch ==
  \A c \in Calls :
    /\ IsTypedResult(c) <=> HasKnownEvent(c)
    /\ ~HasKnownEvent(c) => IsFallbackResult(c)
    /\ HasUnrecognizedEvent(c) => c.output.event = c.input.event

C8_Witness ==
  \E c \in Calls :
    /\ HasEvent(c)
    /\ c.input.event = Str("Messages.Upsert")
    /\ IsFallbackResult(c)
    /\ c.output.event = Str("Messages.Upsert")

\* C9: two calls whose inputs have the same structure complete the same
\* way with results of the same structure, whatever calls were made before
\* or between them.
C9_HistoryIndependent ==
  \A i, j \in 1..Len(calls) :
    calls[i].pre = calls[j].pre =>
      /\ calls[i].out.tag = calls[j].out.tag
      /\ calls[i].result = calls[j].result

C9_Witness ==
  \E i, j, k \in 1..Len(calls) :
    /\ i < j /\ j < k
    /\ HasKnownEvent(calls[i])
    /\ calls[k].pre = calls[i].pre
    /\ calls[j].pre # calls[i].pre
    /\ calls[k].result = calls[i].result

\* C10: a call leaves the structure of its input as it was, in every
\* branch, and the registry is what it was at load.
C10_InputUntouched ==
  /\ registry = WasenderWebhookEventType
  /\ \A c \in Calls : c.post = c.pre

C10_Witness ==
  \E c1, c2 \in Calls :
    /\ c1.raw = c2.raw
    /\ c1.raw.t = "ref"
    /\ "event" \notin DOMAIN c1.input
    /\ "data" \in DOMAIN c1.input
    /\ c1.post = c1.pre
    /\ c2.post = c1.pre
    /\ c1.out # c2.out

\* The structure of raw now differs from what call c was given.
InputChangedSince(c) == Deep(heap, c.raw) # c.pre

\* The structure of the event call c returned differs from what it was at
\* the return.
ResultChangedSince(c) == Deep(heap, c.out.val) # c.result

\* The calls whose caller has written to the event it was returned.
WrittenCalls == {writes[n].call : n \in 1..Len(writes)}

\* No input has changed, and no event has changed but those written to by
\* their own callers.
OnlyWrittenResultsChanged ==
  \A j \in 1..Len(calls) :
    /\ ~InputChangedSince(calls[j])
    /\ j \notin WrittenCalls => ~ResultChangedSince(calls[j])

\* C11 as claimed: when callers have dispatched raw values and some of them
\* write a field of the event they were returned, no raw input changes and
\* no other caller's event changes.
C11_ResultsNotShared == OnlyWrittenResultsChanged

\* C11 as amended: the fallback event returned for an input without a
\* known event name is a new object: when callers write fields of fallback
\* events they were returned, no raw input changes and no other caller's
\* event changes.  (For a known event name the returned value is the input
\* itself.)
C11_FallbackNotShared ==
  (\A i \in WrittenCalls : ~HasKnownEvent(calls[i])) => OnlyWrittenResultsChanged

C11_Witness ==
  \E i, j \in 1..Len(calls) :
    /\ i \in WrittenCalls
    /\ j \notin WrittenCalls
    /\ calls[i].raw = calls[j].raw
    /\ HasUnrecognizedEvent(calls[i])
    /\ ResultChangedSince(calls[i])
    /\ ~ResultChangedSince(calls[j])
    /\ ~InputChangedSince(calls[i])

\* C12: the whole input can be recovered from the returned value: for an
\* input with a known event name every top-level property of the input,
\* the undeclared ones included, is on the result with the same value; for
\* every other input the result's raw property is the input.
C12_Lossless ==
  \A c \in Calls :
    /\ c.out.tag = "return"
    /\ HasKnownEvent(c) =>
         \A k \in DOMAIN c.pre.f :
           k \in DOMAIN c.result.f /\ c.result.f[k] = c.pre.f[k]
    /\ ~HasKnownEvent(c) =>
         /\ "raw" \in DOMAIN c.output
         /\ c.output.raw = c.raw
         /\ c.result.f.raw = c.pre

C12_Witness ==
  \E c \in Calls :
    /\ HasKnownEvent(c)
    /\ "extra" \in DOMAIN c.input
    /\ c.out.tag = "return"
    /\ c.result.f.extra = Str("x")

\* The names the registry holds.
RegistryNames == {registry[k] : k \in DOMAIN registry}

\* C13: the registry holds exactly 22 pairwise distinct event names, the
\* case labels of the dispatcher name exactly the registry's entries, and
\* an input is routed to a typed branch exactly when its event is a name
\* of the registry.
C13_RegistryExhaustive ==
  /\ Cardinality(DOMAIN registry) = 22
  /\ Cardinality(RegistryNames) = 22
  /\ {CaseLabels[i] : i \in 1..Len(CaseLabels)} = DOMAIN registry
  /\ \A c \in Calls :
       IsTypedResult(c) <=>
         (HasEvent(c) /\ \E n \in RegistryNames : c.input.event = Str(n))

C13_Witness ==
  \E c1, c2 \in Calls :
    /\ HasEvent(c1)
    /\ c1.input.event = Str("contacts.update")
    /\ IsTypedResult(c1)
    /\ IsTypedResult(c2)
    /\ c1.raw = c2.raw
    /\ c1.result = c2.result

\* raw is an object whose event is absent or falsy (undefined, null, "", 0
\* or false) and which has timestamp, sessionId and data.
LacksEventButCarriesFields(c) ==
  /\ c.raw.t = "ref"
  /\ c.pre.t = "object"
  /\ ~ToBoolean(InputField(c, "event"))
  /\ {"timestamp", "sessionId", "data"} \subseteq DOMAIN c.input

\* C22: for an input object without a usable event that has timestamp,
\* sessionId and data, the returned fallback has exactly the properties
\* event, data and raw; its data is the whole input, not the input's data;
\* it has no timestamp and no sessionId of its own, and the input's are
\* found under data and under raw.
C22_MalformedShape ==
  \A c \in Calls :
    LacksEventButCarriesFields(c) =>
      /\ c.out.tag = "return"
      /\ DOMAIN c.output = {"event", "data", "raw"}
      /\ c.output.event = Str("unknown")
      /\ c.output.data = c.raw
      /\ c.output.data # c.input.data
      /\ c.output.raw = c.raw
      /\ \A k \in {"timestamp", "sessionId", "data"} :
           /\ c.result.f.data.f[k] = c.pre.f[k]
           /\ c.result.f.raw.f[k] = c.pre.f[k]

C22_Witness ==
  \E c \in Calls :
    /\ LacksEventButCarriesFields(c)
    /\ "event" \notin DOMAIN c.input
    /\ DOMAIN c.output = {"event", "data", "raw"}
    /\ c.result.f.data.f.timestamp = Num(1697640000)
    /\ c.result.f.raw.f.sessionId = Str("session4")

\* raw is an object whose event is the string "unknown".
SaysUnknown(c) == HasEvent(c) /\ c.pre.t = "object" /\ c.input.event = Str("unknown")

\* C23: an input object whose event is the string "unknown" takes the
\* default branch, not the malformed-input one: the result has event
\* "unknown", the input's data (not the whole input), the input's timestamp
\* and sessionId, and the input as raw.
C23_UnknownLiteralIsUnrecognized ==
  \A c \in Calls :
    SaysUnknown(c) =>
      /\ c.out.tag = "return"
      /\ c.fresh = 1
      /\ c.output = [event |-> Str("unknown"),
                     timestamp |-> InputField(c, "timestamp"),
                     data |-> InputField(c, "data"),
                     sessionId |-> InputField(c, "sessionId"),
                     raw |-> c.raw]
      /\ c.output.data # c.raw
      /\ c.result.f.data = Field(c.pre, "data")

C23_Witness ==
  \E c \in Calls :
    /\ SaysUnknown(c)
    /\ ~HasNoEventName(c)
    /\ c.output.event = Str("unknown")
    /\ c.output.timestamp = Num(1697640000)
    /\ c.output.sessionId = Str("session4")
    /\ c.result.f.data.f.message.f.conversation = Str("group hello")

\* raw passes the guard: an object or array whose event is truthy.
PassesGuard(c) == HasEvent(c) /\ ToBoolean(c.input.event)

\* C24: for every input that passes the malformed-input guard the result's
\* event is the input's event; the result's event is a known name exactly
\* when the input's event is; and the result's event differs from the
\* input's only for an input that the guard rejects.
C24_NeverRelabels ==
  \A c \in Calls :
    /\ c.out.tag = "return"
    /\ "event" \in DOMAIN c.output
    /\ PassesGuard(c) => c.output.event = c.input.event
    /\ c.output.event \in KnownEventValues <=> HasKnownEvent(c)
    /\ c.output.event # InputField(c, "event") => ~PassesGuard(c)

C24_Witness ==
  \E c \in Calls :
    /\ PassesGuard(c)
    /\ c.input.event = Str("MESSAGES.UPSERT")
    /\ c.output.event = Str("MESSAGES.UPSERT")
    /\ c.output.event \notin KnownEventValues

FallbackFields == {"event", "timestamp", "data", "sessionId", "raw"}

\* C25: for a known event name the result has exactly the top-level
\* properties of the input, with the input's values (undeclared ones kept,
\* no raw added); for an unrecognized event name the result has exactly the
\* properties event, timestamp, data, sessionId and raw, and every other
\* top-level property of the input is found under raw only.
C25_TopLevelFields ==
  \A c \in Calls :
    /\ HasKnownEvent(c) =>
         /\ c.out.tag = "return"
         /\ DOMAIN c.output = DOMAIN c.input
         /\ c.output = c.input
         /\ "raw" \in DOMAIN c.output <=> "raw" \in DOMAIN c.input
    /\ HasUnrecognizedEvent(c) =>
         /\ c.out.tag = "return"
         /\ DOMAIN c.output = FallbackFields
         /\ \A k \in DOMAIN c.input \ FallbackFields :
              /\ k \notin DOMAIN c.output
              /\ k \in DOMAIN c.result.f.raw.f
              /\ c.result.f.raw.f[k] = c.pre.f[k]

C25_Witness ==
  \E c \in Calls :
    /\ HasUnrecognizedEvent(c)
    /\ "extra" \in DOMAIN c.input
    /\ "extra" \notin DOMAIN c.output
    /\ c.result.f.raw.f.extra = Str("x")
    /\ DOMAIN c.output = FallbackFields

(***************************************************************************)
(* Signature checks.                                                       *)
(***************************************************************************)
SecretStrings == {"", "abc", "abcd", "ab", "ABC", " abc", "secret"}

\* requestSignature: string | undefined | null; configuredSecret: string.
Signatures == {Undefined, Null} \cup {Str(s) : s \in SecretStrings}
Secrets == {Str(s) : s \in SecretStrings}

\* A request's signature is checked against the configured secret.
Verify(signature, secret) ==
  /\ Len(checks) < MaxChecks
  /\ checks' = Append(checks,
                      [signature |-> signature,
                       secret |-> secret,
                       out |-> verifyWasenderWebhookSignature(signature, secret)])
  /\ UNCHANGED <<dispatchVars, header, client, requests>>

NextVerify == \E signature \in Signatures, secret \in Secrets : Verify(signature, secret)

SpecVerify == Init /\ [][NextVerify]_vars

Checks == {checks[i] : i \in 1..Len(checks)}

\* C14: the check answers false whenever the signature is undefined, null
\* or the empty string, or the secret is the empty string; an empty
\* signature does not validate against an empty secret.
C14_EmptyRejected ==
  \A c \in Checks :
    (c.signature \in {Undefined, Null, Str("")} \/ c.secret = Str("")) =>
      c.out = Return(Bool(FALSE))

C14_Witness ==
  \E c \in Checks :
    /\ c.signature = Str("")
    /\ c.secret = Str("")
    /\ c.out = Return(Bool(FALSE))

\* C15: when the signature and the secret are both non-empty strings, the
\* check answers true exactly when they are the same string; a prefix, an
\* extension, another letter case or surrounding whitespace is rejected.
C15_ExactEquality ==
  \A c \in Checks :
    (c.signature.t = "string" /\ c.signature.s # "" /\ c.secret.s # "") =>
      /\ c.out \in {Return(Bool(TRUE)), Return(Bool(FALSE))}
      /\ c.out = Return(Bool(TRUE)) <=> c.signature.s = c.secret.s

C15_Witness ==
  \E c1, c2 \in Checks :
    /\ c1.signature = Str("abc") /\ c1.secret = Str("abc")
    /\ c1.out = Return(Bool(TRUE))
    /\ c2.signature = Str("abc") /\ c2.secret = Str("abcd")
    /\ c2.out = Return(Bool(FALSE))

\* C16: every check returns, and returns a boolean (true or false, never
\* the falsy argument itself); a signature that differs from the secret
\* gets false.
C16_AlwaysBoolean ==
  \A c \in Checks :
    /\ c.out.tag = "return"
    /\ c.out.val.t = "boolean"
    /\ c.signature # c.secret => c.out.val = Bool(FALSE)

C16_Witness ==
  \E c1, c2 \in Checks :
    /\ c1.signature = Undefined
    /\ c1.out = Return(Bool(FALSE))
    /\ c2.signature = Str("secret") /\ c2.secret = Str("")
    /\ c2.out = Return(Bool(FALSE))

\* C27: over strings the check is symmetric: two checks with the arguments
\* exchanged give the same answer; and a string checked against itself is
\* accepted exactly when it is not the empty string.
C27_Symmetric ==
  /\ \A c1, c2 \in Checks :
       (/\ c1.signature.t = "string"
        /\ c2.signature = c1.secret
        /\ c2.secret = c1.signature) => c1.out = c2.out
  /\ \A c \in Checks :
       c.signature = c.secret =>
         /\ c.out \in {Return(Bool(TRUE)), Return(Bool(FALSE))}
         /\ c.out = Return(Bool(TRUE)) <=> c.signature.s # ""

C27_Witness ==
  \E i, j \in 1..Len(checks) :
    /\ i # j
    /\ checks[i].signature = Str(" abc") /\ checks[i].secret = Str("abc")
    /\ checks[j].signature = Str("abc") /\ checks[j].secret = Str(" abc")
    /\ checks[i].out = Return(Bool(FALSE))
    /\ checks[j].out = checks[i].out

(***************************************************************************)
(* The SDK client and its requests.                                        *)
(***************************************************************************)
Clients ==
  {createWasender(k, t) :
     k \in {Undefined, Str("sessionApiKey123")},
     t \in {Undefined, Str("patSuperSecretToken456")}}

InitClient ==
  /\ InitDispatcher
  /\ checks = <<>>
  /\ header = WEBHOOK_SIGNATURE_HEADER
  /\ client \in Clients
  /\ requests = <<>>

\* The application calls an operation of the client.
Request(op) ==
  /\ Len(requests) < MaxRequests
  /\ requests' = Append(requests, [op |-> op, out |-> request(client, op)])
  /\ UNCHANGED <<dispatchVars, checks, header, client>>

NextClient == \E op \in DOMAIN Operations : Request(op)

SpecClient == InitClient /\ [][NextClient]_vars

AccountOperations == {"getAllWhatsAppSessions", "createWhatsAppSession"}
SessionOperations == {"getSessionStatus", "getContacts"}

\* The positions of the Authorization headers of a fetch call.
Authorizations(out) ==
  {i \in 1..Len(out.headers) : out.headers[i].name = "Authorization"}

\* C17: every request sent carries exactly one Authorization header,
\* Bearer <token>, where the token is the personal access token for the
\* account-scoped operations on /whatsapp-sessions and the session API key
\* for the session-scoped operations on /status and /contacts, also when a
\* personal access token is configured.
C17_TokenByScope ==
  \A i \in 1..Len(requests) :
    LET r == requests[i] IN
    r.out.tag = "fetched" =>
      /\ Cardinality(Authorizations(r.out)) = 1
      /\ \A a \in Authorizations(r.out) :
           /\ r.op \in AccountOperations =>
                /\ r.out.path = "/whatsapp-sessions"
                /\ client.personalAccessToken # Undefined
                /\ r.out.headers[a].value = <<"Bearer", client.personalAccessToken.s>>
           /\ r.op \in SessionOperations =>
                /\ r.out.path \in {"/status", "/contacts"}
                /\ client.apiKey # Undefined
                /\ r.out.headers[a].value = <<"Bearer", client.apiKey.s>>

C17_Witness ==
  \E i, j \in 1..Len(requests) :
    /\ client.personalAccessToken = Str("patSuperSecretToken456")
    /\ requests[i].op = "getContacts"
    /\ requests[i].out.tag = "fetched"
    /\ requests[i].out.headers[1].value = <<"Bearer", "sessionApiKey123">>
    /\ requests[j].op = "createWhatsAppSession"
    /\ requests[j].out.tag = "fetched"
    /\ requests[j].out.method = "POST"
    /\ requests[j].out.headers[1].value = <<"Bearer", "patSuperSecretToken456">>

\* C18: when the token of an operation's scope was not given at creation,
\* every call of the operation is rejected with a WasenderAPIError, with
\* the message of the missing token, and nothing is sent with the other
\* token.
C18_MissingTokenRejected ==
  \A i \in 1..Len(requests) :
    LET r == requests[i] IN
    /\ (r.op \in AccountOperations /\ client.personalAccessToken = Undefined) =>
         r.out = Rejected([name |-> "WasenderAPIError",
                           message |-> "Personal Access Token is required for this operation but was not provided during SDK initialization."])
    /\ (r.op \in SessionOperations /\ client.apiKey = Undefined) =>
         r.out = Rejected([name |-> "WasenderAPIError",
                           message |-> "Session API Key is required for this operation but was not provided or is not applicable."])

C18_Witness ==
  \E i, j \in 1..Len(requests) :
    /\ i < j
    /\ client.apiKey = Undefined
    /\ client.personalAccessToken # Undefined
    /\ requests[i].op = "getContacts"
    /\ requests[j].op = "getContacts"
    /\ requests[i].out.tag = "rejected"
    /\ requests[j].out = requests[i].out

(***************************************************************************)
(* The module as a whole: deliveries, dispatches and signature checks in   *)
(* any order.                                                              *)
(***************************************************************************)
ModulePayloads ==
  {ObjectPayload(e, "bare") :
     e \in {Absent, Str("messages.upsert"), Str("unknown.custom.event")}}
    \cup {[root |-> Null, cells |-> <<>>]}

ModuleOps == Len(deliveries) + Len(calls) + Len(checks)

Deliver(p) == ModuleOps < MaxModuleOps /\ Decode(p)

DispatchEvent(i) == ModuleOps < MaxModuleOps /\ Call(i)

CheckSignature(signature, secret) == ModuleOps < MaxModuleOps /\ Verify(signature, secret)

NextModule ==
  \/ \E p \in ModulePayloads : Deliver(p)
  \/ \E i \in 1..Len(deliveries) : DispatchEvent(i)
  \/ \E signature \in {Undefined, Str("abc"), Str("ABC")}, secret \in {Str(""), Str("abc")} :
       CheckSignature(signature, secret)

SpecModule == Init /\ [][NextModule]_vars

UpperCaseLetters ==
  {"A", "B", "C", "D", "E", "F", "G", "H", "I", "J", "K", "L", "M",
   "N", "O", "P", "Q", "R", "S", "T", "U", "V", "W", "X", "Y", "Z"}

\* C19: the name of the signature header is x-webhook-signature, without
\* an upper-case letter, in every state: no dispatch and no signature
\* check changes it.
C19_HeaderFixed ==
  /\ header = <<"x", "-", "w", "e", "b", "h", "o", "o", "k", "-",
                "s", "i", "g", "n", "a", "t", "u", "r", "e">>
  /\ \A i \in 1..Len(header) : header[i] \notin UpperCaseLetters

C19_Witness ==
  /\ Len(calls) > 0
  /\ Len(checks) > 0
  /\ Len(header) = 19
  /\ header[1] = "x"

(***************************************************************************)
(* Known event names with payloads of every shape, registered or not.      *)
(***************************************************************************)
DataShapes == {"absent", "null", "number", "string", "array", "record", "out of enum"}

\* An object { event: name, data: <shape> }; the objects of data follow the
\* root.
ShapePayload(name, shape) ==
  LET fields ==
        CASE shape = "absent" -> NoFields
          [] shape = "null" -> [data |-> Null]
          [] shape = "number" -> [data |-> Num(5)]
          [] shape = "string" -> [data |-> Str("text")]
          [] OTHER -> [data |-> Ref(2)]
      cells ==
        CASE shape = "array" -> <<Arr("0" :> Ref(3)), Obj([status |-> Str("connected")])>>
          [] shape = "record" -> <<Obj([status |-> Str("connected")])>>
          [] shape = "out of enum" -> <<Obj([status |-> Str("bogus")])>>
          [] OTHER -> <<>>
  IN  [root |-> Ref(1),
       cells |-> <<Obj([event |-> Str(name)] @@ fields)>> \o cells]

ShapePayloads == {ShapePayload(n, s) : n \in KnownNames, s \in DataShapes}

ReceiveShape(p) == Len(deliveries) < MaxShapeDeliveries /\ Decode(p)

DispatchShape(i) == Len(calls) < MaxShapeCalls /\ Call(i)

NextShapes ==
  \/ \E p \in ShapePayloads : ReceiveShape(p)
  \/ \E i \in 1..Len(deliveries) : DispatchShape(i)

SpecShapes == Init /\ [][NextShapes]_vars

\* C20: an input with a known event name is returned as the typed event,
\* unchanged, whatever its data is: absent, null, a primitive, an array, a
\* single record, or a record with a value outside its enumeration.
C20_NoPayloadValidation ==
  \A c \in Calls :
    HasKnownEvent(c) =>
      /\ IsTypedResult(c)
      /\ c.result = c.pre

C20_Witness ==
  \E c \in Calls :
    /\ HasKnownEvent(c)
    /\ c.input.event = Str("session.status")
    /\ Field(c.pre, "data") = [t |-> "object", f |-> [status |-> Str("bogus")]]
    /\ IsTypedResult(c)

(***************************************************************************)
(* A stream of deliveries dispatched in arrival order, as by               *)
(* deliveries.map(dispatchWebhookEvent): the next call is on the first     *)
(* delivery not dispatched yet.                                            *)
(***************************************************************************)
StreamPayloads ==
  {ObjectPayload(e, p) :
     e \in {Absent, Str("chats.upsert"), Str("unknown.custom.event")},
     p \in {"full", "list"}}
    \cup {[root |-> Null, cells |-> <<>>]}

Arrive(p) == Len(deliveries) < MaxStreamDeliveries /\ Decode(p)

DispatchInOrder == Len(calls) < Len(deliveries) /\ Call(Len(calls) + 1)

NextStream ==
  \/ \E p \in StreamPayloads : Arrive(p)
  \/ DispatchInOrder

SpecStream == Init /\ [][NextStream]_vars

\* The number of events a call handed to its caller: none when it threw or
\* returned no object, one for an object, one per entry for an array.
EventCount(c) ==
  CASE c.out.tag = "throw" -> 0
    [] c.out.tag = "return" /\ c.result.t = "object" -> 1
    [] c.out.tag = "return" /\ c.result.t = "array" -> Cardinality(DOMAIN c.result.f)
    [] OTHER -> 0

\* The event a call returned is the one of delivery d: the delivery itself,
\* or a fallback event whose raw is the delivery.
EventOfDelivery(c, d) ==
  /\ c.out.tag = "return"
  /\ \/ c.out.val = d
     \/ "raw" \in DOMAIN c.output /\ c.output.raw = d

\* C21: every call hands back exactly one event, also when the input's data
\* is a list of several entries; when the deliveries are dispatched in
\* arrival order there are as many events as dispatched deliveries, the i-th
\* event is the one of the i-th delivery, and no event stands for two
\* deliveries.
C21_OneEventPerDelivery ==
  /\ Len(calls) <= Len(deliveries)
  /\ \A i \in 1..Len(calls) :
       /\ calls[i].raw = deliveries[i]
       /\ EventCount(calls[i]) = 1
       /\ EventOfDelivery(calls[i], deliveries[i])
  /\ \A i, j \in 1..Len(calls) :
       i # j => calls[i].out.val # calls[j].out.val

C21_Witness ==
  /\ Len(calls) = 2
  /\ Len(deliveries) = 2
  /\ HasKnownEvent(calls[1])
  /\ Field(calls[1].pre, "data").t = "array"
  /\ Cardinality(DOMAIN Field(calls[1].pre, "data").f) = 2
  /\ EventCount(calls[1]) = 1
  /\ HasUnrecognizedEvent(calls[2])
  /\ EventCount(calls[2]) = 1

(***************************************************************************)
(* Events dispatched again: the application passes a value it was returned *)
(* back to dispatchWebhookEvent.                                           *)
(***************************************************************************)
RedispatchPayloads ==
  {ObjectPayload(e, p) :
     e \in {Absent, Null, Str(""), Num(5), Bool(TRUE), EmptyObject,
            Str("messages.upsert"), Str("poll.results"), Str("unknown"),
            Str("unknown.custom.event"), Str("Messages.Upsert")},
     p \in {"full", "bare", "list"}}
    \cup {[root |-> v, cells |-> <<>>] : v \in {Null, Undefined, Str("hello")}}
    \cup {[root |-> Ref(1), cells |-> <<Arr(NoFields)>>]}

ReceiveFirst(p) == Len(deliveries) < MaxRedispatchDeliveries /\ Decode(p)

DispatchFirst(i) == Len(calls) < MaxRedispatchCalls /\ Call(i)

\* dispatchWebhookEvent(e) where e is the value call i returned.
Redispatch(i) ==
  /\ Len(calls) < MaxRedispatchCalls
  /\ calls[i].out.tag = "return"
  /\ LET raw == calls[i].out.val
         eff == dispatchWebhookEvent(raw, heap, registry)
     IN  /\ heap' = eff.heap
         /\ registry' = eff.registry
         /\ calls' = Append(calls, CallRecord(raw, heap, eff))
  /\ UNCHANGED <<deliveries, writes>>
  /\ UNCHANGED otherVars

NextRedispatch ==
  \/ \E p \in RedispatchPayloads : ReceiveFirst(p)
  \/ \E i \in 1..Len(deliveries) : DispatchFirst(i)
  \/ \E i \in 1..Len(calls) : Redispatch(i)

SpecRedispatch == Init /\ [][NextRedispatch]_vars

\* Call j was given the value call i returned.
IsRedispatchOf(j, i) ==
  /\ i < j
  /\ calls[i].out.tag = "return"
  /\ calls[j].raw = calls[i].out.val

\* C26: when the value returned for an input x is dispatched again, the
\* second result has the same event and the same data as the first (the same
\* value, hence the same structure); for a known event name the second
\* result is structurally the first; for a fallback event the second result
\* is a new fallback event whose raw is the first result, not x.
C26_RedispatchStable ==
  \A i, j \in 1..Len(calls) :
    IsRedispatchOf(j, i) =>
      /\ calls[j].out.tag = "return"
      /\ {"event", "data"} \subseteq DOMAIN calls[j].output <=>
           {"event", "data"} \subseteq DOMAIN calls[i].output
      /\ \A k \in {"event", "data"} \cap DOMAIN calls[i].output :
           /\ k \in DOMAIN calls[j].output
           /\ calls[j].output[k] = calls[i].output[k]
           /\ calls[j].result.f[k] = calls[i].result.f[k]
      /\ HasKnownEvent(calls[i]) => calls[j].result = calls[i].result
      /\ IsFallbackResult(calls[i]) =>
           /\ IsFallbackResult(calls[j])
           /\ calls[j].output.raw = calls[i].out.val
           /\ calls[j].output.raw # calls[i].raw
           /\ calls[j].result.f.raw = calls[i].result

C26_Witness ==
  \E i, j \in 1..Len(calls) :
    /\ IsRedispatchOf(j, i)
    /\ calls[i].raw.t = "ref"
    /\ "event" \notin DOMAIN calls[i].input
    /\ "data" \in DOMAIN calls[i].input
    /\ IsFallbackResult(calls[i])
    /\ calls[j].output.event = Str("unknown")
    /\ calls[j].output.data = calls[i].raw
    /\ calls[j].output.raw = calls[i].out.val

====
